---- MODULE Spec2Model ----
(***************************************************************************)
(* A model of authors.go (calmh/git-contributors): the reconciliation of   *)
(* the git history against an AUTHORS roster, the commit count and         *)
(* geekrank, the in-place filter and the two sorts of main.                *)
(*                                                                         *)
(* Strings that the program inspects (names, the exclude pattern) are      *)
(* sequences of character codes; strings that are only compared for        *)
(* equality (emails, commit hashes) are TLA+ strings.                      *)
(***************************************************************************)
EXTENDS Integers, Sequences, FiniteSets, TLC

VARIABLES
    pc,                 \* the statement of main about to run
    history,            \* the repository: the commits, in git log's order
    exclude,            \* main: exclude (stringSet)
    roster,             \* what getAuthors returned (kept for the properties)
    authors,            \* main: authors ([]author)
    listed,             \* main: listed (stringSet)
    names,              \* main: names (map[string]int), 1-based positions
    line,               \* allAuthors: the position of its loop in the log lines
    all,                \* allAuthors: names (map[string]string), then main: all
    todo,               \* main: the keys of all that range has yet to visit
    prefilter,          \* authors as getContributions left it (for the properties)
    i,                  \* main: the filter loop's i (0-based, as in the source)
    minContributions,   \* flag -min
    excludePattern,     \* flag -exclude-pattern
    geekrank,           \* flag -geekrank
    run,                \* which execution of the reconciliation step this is
    firstRun            \* authors as the first reconciliation left it

vars == <<pc, history, exclude, roster, authors, listed, names, line, all, todo,
          prefilter, i, minContributions, excludePattern, geekrank, run, firstRun>>

(***************************************************************************)
(* Bounds of the model.                                                    *)
(***************************************************************************)
\* The size of the input of a whole run: the commits, the hashes of the
\* exclude file and the fields of the AUTHORS file (1 for a line without
\* fields), all together.
MaxInput == 4
\* For the runs that start at the filter: the largest -min, the longest
\* author list and the most commits of one author.
MaxMin == 2
MaxAuthors == 3
MaxCount == 2

\* The defaults of -min and -exclude-pattern ("[bot]").
DefaultMin == 1
DefaultPattern == <<91, 98, 111, 116, 93>>

EmailSeq == <<"a@x", "b@x", "c@x", "d@x", "e@x">>
Emails == {EmailSeq[1], EmailSeq[2]}

\* The hash of commit k of the log: a string of one character.
Hash(k) == <<k>>

\* "a" and "B[bot]"; the empty name is <<>>.
NameWords == {<<97>>, <<66, 91, 98, 111, 116, 93>>}
CommitNames == {<<>>} \cup NameWords
\* The default pattern, and the empty pattern, which every name contains.
Patterns == {DefaultPattern, <<>>}

Range(s) == {s[k] : k \in DOMAIN s}
Max(S) == CHOOSE x \in S : \A y \in S : y <= x

(***************************************************************************)
(* stringSet                                                               *)
(***************************************************************************)
add(s, e) == s \cup {e}

hasNever(s, e) == FALSE

has(s, e) == e \in s

RECURSIVE stringSetFromStrings(_)
stringSetFromStrings(ss) ==
    IF ss = <<>> THEN {}
    ELSE add(stringSetFromStrings(SubSeq(ss, 1, Len(ss) - 1)), ss[Len(ss)])

(***************************************************************************)
(* getAuthors.  A line of the AUTHORS file is either skipped (empty, or    *)
(* starting with '#') or split into fields; a field is classified by the   *)
(* two regular expressions: kind "nick" when nicknameRe matches (text is   *)
(* its submatch), else "email" when emailRe matches, else "word".          *)
(***************************************************************************)
NewAuthor == [name |-> <<>>, nickname |-> <<>>, emails |-> <<>>,
              commits |-> 0, geekrank |-> 0]

parseField(a, f) ==
    IF f.kind = "nick" THEN [a EXCEPT !.nickname = f.text]
    ELSE IF f.kind = "email" THEN [a EXCEPT !.emails = Append(@, f.text)]
    ELSE IF a.name = <<>> THEN [a EXCEPT !.name = f.text]
    ELSE [a EXCEPT !.name = @ \o <<32>> \o f.text]

RECURSIVE parseFields(_, _)
parseFields(a, fields) ==
    IF fields = <<>> THEN a
    ELSE parseFields(parseField(a, Head(fields)), Tail(fields))

RECURSIVE getAuthors(_)
getAuthors(lines) ==
    IF lines = <<>> THEN <<>>
    ELSE IF Head(lines).skipped THEN getAuthors(Tail(lines))
    ELSE <<parseFields(NewAuthor, Head(lines).fields)>> \o getAuthors(Tail(lines))

Word(w) == [kind |-> "word", text |-> w]
EmailField(e) == [kind |-> "email", text |-> e]
NickField(n) == [kind |-> "nick", text |-> n]
EmailFields(es) == [k \in DOMAIN es |-> EmailField(es[k])]

\* The lines the model draws AUTHORS files from, by weight.  A skipped line
\* and a line of spaces (no field) weigh 1; another line weighs as many as it
\* has fields: emails alone, a name of one word followed by emails, and one
\* line that carries a nickname.
LinesOfWeight(w) ==
    (IF w = 1
     THEN {[skipped |-> TRUE, fields |-> <<>>], [skipped |-> FALSE, fields |-> <<>>]}
     ELSE {})
    \cup {[skipped |-> FALSE, fields |-> EmailFields(es)] : es \in [1..w -> Emails]}
    \cup {[skipped |-> FALSE, fields |-> <<Word(n)>> \o EmailFields(es)] :
            n \in NameWords, es \in [1..(w - 1) -> Emails]}
    \cup (IF w = 3
          THEN {[skipped |-> FALSE,
                 fields |-> <<Word(<<97>>), NickField(<<98>>),
                              EmailField(EmailSeq[1])>>]}
          ELSE {})

\* The AUTHORS files whose lines weigh w together.
FilesOfWeight[w \in 0..MaxInput] ==
    IF w = 0 THEN {<<>>}
    ELSE UNION {{<<l>> \o f : l \in LinesOfWeight(lw), f \in FilesOfWeight[w - lw]} :
                  lw \in 1..w}

RosterFiles == [w \in 0..MaxInput |-> FilesOfWeight[w]]

(***************************************************************************)
(* The repository.                                                         *)
(***************************************************************************)
Histories ==
    UNION {{[k \in 1..n |-> [hash |-> Hash(k), email |-> p[k][1], name |-> p[k][2]]] :
              p \in [1..n -> Emails \X CommitNames]} : n \in 0..MaxInput}

\* The repository in which author k of a list has cnt[k] commits, all under
\* the email EmailSeq[k] and the name nm[k].
RECURSIVE RepositoryOf(_, _, _, _)
RepositoryOf(k, nm, cnt, h) ==
    IF k > Len(nm) THEN h
    ELSE RepositoryOf(k + 1, nm, cnt,
            h \o [j \in 1..cnt[k] |->
                    [hash |-> Hash(Len(h) + j), email |-> EmailSeq[k], name |-> nm[k]]])

\* git log --format="%H %ae %an", split at newlines and each line SplitN(" ", 3):
\* a line of three fields per commit, then the empty piece after the last newline.
LogLines(h) ==
    [k \in 1..(Len(h) + 1) |->
        IF k <= Len(h) THEN <<h[k].hash, h[k].email, h[k].name>> ELSE <<<<>>>>]

\* git log --pretty=format:%ae, split at newlines: one email per commit, and
\* the single empty piece when there is no commit.
EmailLines(h) ==
    IF h = <<>> THEN <<"">> ELSE [k \in DOMAIN h |-> h[k].email]

(***************************************************************************)
(* main, lines 82-113: the reconciliation.                                 *)
(***************************************************************************)
\* listed after the loop of lines 85-90.
BuildListedFirstOnly(auths) ==
    {auths[k].emails[1] : k \in {j \in DOMAIN auths : auths[j].emails # <<>>}}

BuildListed(auths) ==
    UNION {Range(auths[k].emails) : k \in DOMAIN auths}

\* names after the loop of lines 85-90: a later author of the same name
\* overwrites the position of an earlier one.
BuildNamesEmpty(auths) == <<>>

BuildNames(auths) ==
    [n \in {auths[k].name : k \in DOMAIN auths} |->
        Max({k \in DOMAIN auths : auths[k].name = n})]

\* line 102
AppendEmail(auths, k, email) ==
    [auths EXCEPT ![k].emails = Append(@, email)]

\* lines 107-110
AppendAuthor(auths, name, email) ==
    Append(auths, [NewAuthor EXCEPT !.name = name, !.emails = <<email>>])

(***************************************************************************)
(* allAuthors, lines 244-261.                                              *)
(***************************************************************************)
recordNameLastWins(m, email, name) == (email :> name) @@ m

\* lines 256-258: a missing key reads as "", like a key that holds "".
recordName(m, email, name) ==
    IF email \notin DOMAIN m \/ m[email] = <<>>
    THEN (email :> name) @@ m
    ELSE m

(***************************************************************************)
(* getContributions, lines 214-231.                                        *)
(***************************************************************************)
emailIdxFirstWins(auths) ==
    [e \in UNION {Range(auths[k].emails) : k \in DOMAIN auths} |->
        CHOOSE k \in DOMAIN auths :
            /\ e \in Range(auths[k].emails)
            /\ \A j \in DOMAIN auths : e \in Range(auths[j].emails) => k <= j]

\* lines 215-220: a later author that lists an email overwrites an earlier one.
emailIdx(auths) ==
    [e \in UNION {Range(auths[k].emails) : k \in DOMAIN auths} |->
        Max({k \in DOMAIN auths : e \in Range(auths[k].emails)})]

\* lines 222-226
RECURSIVE countCommits(_, _, _)
countCommits(auths, idx, lines) ==
    IF lines = <<>> THEN auths
    ELSE countCommits(
            IF Head(lines) \in DOMAIN idx
            THEN [auths EXCEPT ![idx[Head(lines)]].commits = @ + 1]
            ELSE auths,
            idx, Tail(lines))

\* math.Log2(float64(commits)): -Inf for 0, else a finite value of which int()
\* keeps the integer part (Log2 is exact at the powers of two).
RECURSIVE truncLog2(_)
truncLog2(c) == IF c < 2 THEN 0 ELSE 1 + truncLog2(c \div 2)

Log2(c) == [inf |-> c = 0, int |-> IF c = 0 THEN 0 ELSE truncLog2(c)]

\* int(f) of a float the int type cannot hold is implementation-dependent in
\* Go: the builds give the least int.  That is -2^31 where int has 32 bits.
\* Where it has 64 bits it is -2^63, below the integers of the model checker,
\* and MinInt64 stands for it: like -2^63 it is below every finite rank.
Builds == {"int32", "int64"}
MinInt32 == -2147483647 - 1
MinInt64 == -2147483647

FloatToInt(f, build) ==
    IF f.inf THEN (IF build = "int32" THEN MinInt32 ELSE MinInt64) ELSE f.int

\* lines 228-231
setGeekrank(auths, build) ==
    [k \in DOMAIN auths |->
        [auths[k] EXCEPT !.geekrank = FloatToInt(Log2(auths[k].commits), build)]]

getContributions(auths, h, build) ==
    setGeekrank(countCommits(auths, emailIdx(auths), EmailLines(h)), build)

(***************************************************************************)
(* main, lines 118-130: the filter and the sorts.                          *)
(***************************************************************************)
\* strings.Contains
Contains(s, substr) ==
    \E k \in 0..(Len(s) - Len(substr)) : SubSeq(s, k + 1, k + Len(substr)) = substr

\* line 120
removed(a, pattern, min) == Contains(a.name, pattern) \/ a.commits < min

\* line 121, for the 0-based k of the source
removeAt(auths, k) ==
    SubSeq(auths, 1, k) \o SubSeq(auths, k + 2, Len(auths))

\* strings.ToLower on the ASCII letters
ToLower(s) == [k \in DOMAIN s |-> IF s[k] >= 65 /\ s[k] <= 90 THEN s[k] + 32 ELSE s[k]]

\* Go's < on strings: bytewise, a proper prefix is less.
RECURSIVE StringLess(_, _)
StringLess(s, t) ==
    IF t = <<>> THEN FALSE
    ELSE IF s = <<>> THEN TRUE
    ELSE IF Head(s) # Head(t) THEN Head(s) < Head(t)
    ELSE StringLess(Tail(s), Tail(t))

\* byName.Less
byNameLess(a, b) == StringLess(ToLower(a.name), ToLower(b.name))

\* byGeekrank.Less
byGeekrankLessAscending(a, b) == a.geekrank < b.geekrank

byGeekrankLess(a, b) == a.geekrank > b.geekrank

\* The Less of the sort.Interface that sort.Sort is given.
Less(by, a, b) == IF by = "byName" THEN byNameLess(a, b) ELSE byGeekrankLess(a, b)

\* sort.Sort on fewer than 12 elements is an insertion sort: each element in
\* turn is swapped down while it is Less than the one before it.
RECURSIVE sinkLast(_, _)
sinkLast(by, s) ==
    IF Len(s) < 2 \/ ~Less(by, s[Len(s)], s[Len(s) - 1]) THEN s
    ELSE Append(sinkLast(by, Append(SubSeq(s, 1, Len(s) - 2), s[Len(s)])),
                s[Len(s) - 1])

RECURSIVE insertionSort(_, _)
insertionSort(by, s) ==
    IF Len(s) < 2 THEN s
    ELSE sinkLast(by, Append(insertionSort(by, SubSeq(s, 1, Len(s) - 1)),
                             s[Len(s)]))

(***************************************************************************)
(* The program.  The repository is there before the program starts, and so *)
(* are -min and -exclude-pattern, which every iteration of the filter      *)
(* reads.  What the program reads once (the two files, -geekrank) is drawn *)
(* where it is read.                                                       *)
(***************************************************************************)
Init ==
    /\ pc = "exclude"
    /\ history \in Histories
    /\ exclude = {}
    /\ roster = <<>>
    /\ authors = <<>>
    /\ listed = {}
    /\ names = <<>>
    /\ line = 1
    /\ all = <<>>
    /\ todo = {}
    /\ prefilter = <<>>
    /\ i = 0
    /\ minContributions = DefaultMin
    /\ excludePattern = DefaultPattern
    /\ geekrank = FALSE
    /\ run = 1
    /\ firstRun = <<>>

\* The program at line 118, with any -min and -exclude-pattern: getAuthors
\* has read a roster of one line per author, each with one email of its
\* own; the repository holds cnt[k] commits of author k; there is no exclude
\* file; the reconciliation found every email listed and getContributions
\* has counted.
InitCounted ==
    \E n \in 0..MaxAuthors :
        \E nm \in [1..n -> CommitNames], cnt \in [1..n -> 0..MaxCount],
           build \in Builds :
            LET file == [k \in 1..n |->
                            [skipped |-> FALSE,
                             fields |-> (IF nm[k] = <<>> THEN <<>> ELSE <<Word(nm[k])>>)
                                        \o <<EmailField(EmailSeq[k])>>]]
                repo == RepositoryOf(1, nm, cnt, <<>>)
                read == getAuthors(file)
                counted == getContributions(read, repo, build)
            IN  /\ pc = "counted"
                /\ history = repo
                /\ exclude = {}
                /\ roster = read
                /\ authors = counted
                /\ listed = BuildListed(read)
                /\ names = BuildNames(read)
                /\ line = Len(repo) + 2
                /\ all = [e \in {repo[c].email : c \in DOMAIN repo} |->
                            repo[CHOOSE c \in DOMAIN repo : repo[c].email = e].name]
                /\ todo = {}
                /\ prefilter = counted
                /\ i = 0
                /\ minContributions \in 0..MaxMin
                /\ excludePattern \in Patterns
                /\ geekrank = FALSE
                /\ run = 1
                /\ firstRun = <<>>

\* lines 69-74, -exclude-commits not given: exclude stays nil.
NoExcludeFile ==
    /\ pc = "exclude"
    /\ pc' = "authors"
    /\ UNCHANGED <<history, exclude, roster, authors, listed, names, line, all, todo,
                   prefilter, i, minContributions, excludePattern, geekrank, run,
                   firstRun>>

\* lines 69-74: the file holds hashes of the repository (another hash excludes
\* nothing), one per line, each line ended by a newline, so that Split yields
\* a last, empty piece.
LoadExclude ==
    /\ pc = "exclude"
    /\ \E hs \in SUBSET {history[c].hash : c \in DOMAIN history} :
          /\ Cardinality(hs) + Len(history) <= MaxInput
          /\ LET Held(c) == c.hash \in hs
                 held == SelectSeq(history, Held)
             IN  exclude' = stringSetFromStrings(
                                Append([k \in DOMAIN held |-> held[k].hash], <<>>))
    /\ pc' = "authors"
    /\ UNCHANGED <<history, roster, authors, listed, names, line, all, todo,
                   prefilter, i, minContributions, excludePattern, geekrank, run,
                   firstRun>>

\* lines 77-80, -read-authors not given
NoAuthorsFile ==
    /\ pc = "authors"
    /\ pc' = "index"
    /\ UNCHANGED <<history, exclude, roster, authors, listed, names, line, all, todo,
                   prefilter, i, minContributions, excludePattern, geekrank, run,
                   firstRun>>

\* lines 77-80
LoadAuthors ==
    /\ pc = "authors"
    /\ \E w \in 0..(MaxInput - Len(history) - Cardinality(exclude \ {<<>>})) :
          \E f \in RosterFiles[w] :
              /\ authors' = getAuthors(f)
              /\ roster' = getAuthors(f)
    /\ pc' = "index"
    /\ UNCHANGED <<history, exclude, listed, names, line, all, todo,
                   prefilter, i, minContributions, excludePattern, geekrank, run,
                   firstRun>>

\* lines 83-90, and allAuthors up to its loop
BuildIndex ==
    /\ pc = "index"
    /\ listed' = BuildListed(authors)
    /\ names' = BuildNames(authors)
    /\ line' = 1
    /\ all' = <<>>
    /\ pc' = "log"
    /\ UNCHANGED <<history, exclude, roster, authors, todo,
                   prefilter, i, minContributions, excludePattern, geekrank, run,
                   firstRun>>

\* lines 246-249
AllAuthorsMalformed ==
    /\ pc = "log"
    /\ line <= Len(LogLines(history))
    /\ Len(LogLines(history)[line]) # 3
    /\ line' = line + 1
    /\ UNCHANGED <<pc, history, exclude, roster, authors, listed, names, all, todo,
                   prefilter, i, minContributions, excludePattern, geekrank, run,
                   firstRun>>

\* lines 250-254
AllAuthorsExcluded ==
    /\ pc = "log"
    /\ line <= Len(LogLines(history))
    /\ Len(LogLines(history)[line]) = 3
    /\ has(exclude, LogLines(history)[line][1])
    /\ line' = line + 1
    /\ UNCHANGED <<pc, history, exclude, roster, authors, listed, names, all, todo,
                   prefilter, i, minContributions, excludePattern, geekrank, run,
                   firstRun>>

\* lines 250-258
AllAuthorsRecord ==
    /\ pc = "log"
    /\ line <= Len(LogLines(history))
    /\ Len(LogLines(history)[line]) = 3
    /\ ~has(exclude, LogLines(history)[line][1])
    /\ all' = recordName(all, LogLines(history)[line][2], LogLines(history)[line][3])
    /\ line' = line + 1
    /\ UNCHANGED <<pc, history, exclude, roster, authors, listed, names, todo,
                   prefilter, i, minContributions, excludePattern, geekrank, run,
                   firstRun>>

\* line 261, and line 95: range starts on the keys of all
AllAuthorsReturn ==
    /\ pc = "log"
    /\ line > Len(LogLines(history))
    /\ todo' = DOMAIN all
    /\ pc' = "reconcile"
    /\ UNCHANGED <<history, exclude, roster, authors, listed, names, line, all,
                   prefilter, i, minContributions, excludePattern, geekrank, run,
                   firstRun>>

\* lines 95-98.  range visits the keys of a map in an order that Go leaves
\* unspecified: any key not yet visited may come next.
ReconcileListed ==
    /\ pc = "reconcile"
    /\ \E email \in todo :
          /\ has(listed, email)
          /\ todo' = todo \ {email}
    /\ UNCHANGED <<pc, history, exclude, roster, authors, listed, names, line, all,
                   prefilter, i, minContributions, excludePattern, geekrank, run,
                   firstRun>>

\* lines 100-105
ReconcileNameMatch ==
    /\ pc = "reconcile"
    /\ \E email \in todo :
          /\ ~has(listed, email)
          /\ all[email] \in DOMAIN names
          /\ all[email] # <<>>
          /\ authors' = AppendEmail(authors, names[all[email]], email)
          /\ listed' = add(listed, email)
          /\ todo' = todo \ {email}
    /\ UNCHANGED <<pc, history, exclude, roster, names, line, all,
                   prefilter, i, minContributions, excludePattern, geekrank, run,
                   firstRun>>

\* lines 107-112
ReconcileNewAuthor ==
    /\ pc = "reconcile"
    /\ \E email \in todo :
          /\ ~has(listed, email)
          /\ ~(all[email] \in DOMAIN names /\ all[email] # <<>>)
          /\ authors' = AppendAuthor(authors, all[email], email)
          /\ names' = (all[email] :> (Len(authors) + 1)) @@ names
          /\ listed' = add(listed, email)
          /\ todo' = todo \ {email}
    /\ UNCHANGED <<pc, history, exclude, roster, line, all,
                   prefilter, i, minContributions, excludePattern, geekrank, run,
                   firstRun>>

\* line 113: every key was visited
ReconcileEnd ==
    /\ pc = "reconcile"
    /\ todo = {}
    /\ pc' = "count"
    /\ UNCHANGED <<history, exclude, roster, authors, listed, names, line, all, todo,
                   prefilter, i, minContributions, excludePattern, geekrank, run,
                   firstRun>>

\* line 116, on a build whose int has 32 or 64 bits
GetContributions ==
    /\ pc = "count"
    /\ \E build \in Builds :
          /\ authors' = getContributions(authors, history, build)
          /\ prefilter' = getContributions(authors, history, build)
    /\ pc' = "counted"
    /\ UNCHANGED <<history, exclude, roster, listed, names, line, all, todo,
                   i, minContributions, excludePattern, geekrank, run, firstRun>>

\* line 119: i := 0
FilterStart ==
    /\ pc = "counted"
    /\ i' = 0
    /\ pc' = "filter"
    /\ UNCHANGED <<history, exclude, roster, authors, listed, names, line, all, todo,
                   prefilter, minContributions, excludePattern, geekrank, run,
                   firstRun>>

\* The removal without the i-- of line 122.
FilterRemoveNoDecrement ==
    /\ pc = "filter"
    /\ i < Len(authors)
    /\ removed(authors[i + 1], excludePattern, minContributions)
    /\ authors' = removeAt(authors, i)
    /\ i' = i + 1
    /\ UNCHANGED <<pc, history, exclude, roster, listed, names, line, all, todo,
                   prefilter, minContributions, excludePattern, geekrank, run,
                   firstRun>>

\* lines 120-123: the author is removed; i-- and the loop's i++ leave i alone
FilterRemove ==
    /\ pc = "filter"
    /\ i < Len(authors)
    /\ removed(authors[i + 1], excludePattern, minContributions)
    /\ authors' = removeAt(authors, i)
    /\ UNCHANGED <<pc, history, exclude, roster, listed, names, line, all, todo,
                   prefilter, i, minContributions, excludePattern, geekrank, run,
                   firstRun>>

\* lines 119-120: the author stays
FilterKeep ==
    /\ pc = "filter"
    /\ i < Len(authors)
    /\ ~removed(authors[i + 1], excludePattern, minContributions)
    /\ i' = i + 1
    /\ UNCHANGED <<pc, history, exclude, roster, authors, listed, names, line, all,
                   todo, prefilter, minContributions, excludePattern, geekrank, run,
                   firstRun>>

\* line 119: i < len(authors) fails
FilterEnd ==
    /\ pc = "filter"
    /\ i >= Len(authors)
    /\ pc' = "sort"
    /\ UNCHANGED <<history, exclude, roster, authors, listed, names, line, all, todo,
                   prefilter, i, minContributions, excludePattern, geekrank, run,
                   firstRun>>

\* line 127, with the -geekrank that line 128 reads
SortByName ==
    /\ pc = "sort"
    /\ authors' = insertionSort("byName", authors)
    /\ geekrank' \in BOOLEAN
    /\ pc' = "rank"
    /\ UNCHANGED <<history, exclude, roster, listed, names, line, all, todo,
                   prefilter, i, minContributions, excludePattern, run, firstRun>>

\* lines 128-130
SortByGeekrank ==
    /\ pc = "rank"
    /\ geekrank
    /\ authors' = insertionSort("byGeekrank", authors)
    /\ pc' = "render"
    /\ UNCHANGED <<history, exclude, roster, listed, names, line, all, todo,
                   prefilter, i, minContributions, excludePattern, geekrank, run,
                   firstRun>>

\* line 128, -geekrank not set
NoGeekrank ==
    /\ pc = "rank"
    /\ ~geekrank
    /\ pc' = "render"
    /\ UNCHANGED <<history, exclude, roster, authors, listed, names, line, all, todo,
                   prefilter, i, minContributions, excludePattern, geekrank, run,
                   firstRun>>

\* The reconciliation step once more, on the list the first one produced.
SecondRun ==
    /\ pc = "count"
    /\ run = 1
    /\ run' = 2
    /\ firstRun' = authors
    /\ pc' = "index"
    /\ UNCHANGED <<history, exclude, roster, authors, listed, names, line, all, todo,
                   prefilter, i, minContributions, excludePattern, geekrank>>

Reconciliation ==
    \/ NoExcludeFile \/ LoadExclude \/ NoAuthorsFile \/ LoadAuthors \/ BuildIndex
    \/ AllAuthorsMalformed \/ AllAuthorsExcluded \/ AllAuthorsRecord
    \/ AllAuthorsReturn
    \/ ReconcileListed \/ ReconcileNameMatch \/ ReconcileNewAuthor \/ ReconcileEnd

Filtering ==
    \/ FilterStart \/ FilterRemove \/ FilterKeep \/ FilterEnd
    \/ SortByName \/ SortByGeekrank \/ NoGeekrank

Next == Reconciliation \/ GetContributions \/ Filtering

\* The program with the default -min and -exclude-pattern.
Spec == Init /\ [][Next]_vars

\* The reconciliation step run twice on the same roster and history.
SpecTwice == Init /\ [][Reconciliation \/ SecondRun]_vars

\* The filter and the sorts, for every -min and -exclude-pattern.
SpecFilter == InitCounted /\ [][Filtering]_vars

(***************************************************************************)
(* Properties.                                                             *)
(***************************************************************************)
Min(S) == CHOOSE x \in S : \A y \in S : x <= y

EmailsOf(a) == Range(a.emails)

\* How many times email e occurs in the emails of the authors of auths.
Occurrences(auths, e) ==
    Cardinality({p \in UNION {{<<k, j>> : j \in DOMAIN auths[k].emails} :
                                k \in DOMAIN auths} :
                    auths[p[1]].emails[p[2]] = e})

AllEmails(auths) == UNION {EmailsOf(auths[k]) : k \in DOMAIN auths}

RECURSIVE SumCommits(_)
SumCommits(auths) ==
    IF auths = <<>> THEN 0 ELSE Head(auths).commits + SumCommits(Tail(auths))

\* The commits that allAuthors does not skip.
Included == {c \in DOMAIN history : history[c].hash \notin exclude}

\* C1 as claimed: after the reconciliation loop every email of the author
\* list occurs exactly once in it, whatever the roster file held.
C1_Uniqueness ==
    pc = "count" => \A e \in AllEmails(authors) : Occurrences(authors, e) = 1

\* C1 as amended: the reconciliation loop adds no second occurrence.  After
\* it, an email of the roster occurs as often as the roster file listed it,
\* and an email that only the history has occurs exactly once.
C1_NoAddedDuplicate ==
    pc = "count" =>
        \A e \in Emails :
            Occurrences(authors, e) =
                IF Occurrences(roster, e) > 0 THEN Occurrences(roster, e)
                ELSE IF e \in DOMAIN all THEN 1 ELSE 0

C1_Witness ==
    /\ pc = "count"
    /\ \E e \in DOMAIN all : Occurrences(roster, e) = 0 /\ Occurrences(authors, e) = 1
    /\ \E e \in DOMAIN all : Occurrences(roster, e) = 1 /\ Occurrences(authors, e) = 1

\* C2 as claimed: after getContributions, each author's commits is the number
\* of non-excluded commits whose email is one of the author's emails (stated
\* for author lists in which no email occurs twice).
C2_ExclusionAppliesToCounting ==
    (pc = "counted" /\ \A e \in AllEmails(authors) : Occurrences(authors, e) = 1) =>
        \A k \in DOMAIN authors :
            authors[k].commits =
                Cardinality({c \in Included : history[c].email \in EmailsOf(authors[k])})

\* C3: a reconciliation step on an unlisted email whose non-empty name is the
\* name of an author of the list appends the email to an author of that name
\* and leaves the list's length and every other author as they were.
C3_NameMatchPrecedence ==
    [][(pc = "reconcile" /\ todo' # todo) =>
        LET email == CHOOSE e \in todo : e \notin todo'
        IN  (/\ email \notin listed
             /\ all[email] # <<>>
             /\ \E k \in DOMAIN authors : authors[k].name = all[email])
            => /\ Len(authors') = Len(authors)
               /\ \E k \in DOMAIN authors :
                     /\ authors[k].name = all[email]
                     /\ authors' = [authors EXCEPT ![k].emails = Append(@, email)]
      ]_vars

C3_Witness ==
    /\ pc = "reconcile"
    /\ Len(authors) = Len(roster)
    /\ \E k \in DOMAIN roster :
          /\ roster[k].emails # <<>>
          /\ Len(authors[k].emails) = Len(roster[k].emails) + 1

\* C4 as claimed: after getContributions, each author's commits is the number
\* of lines of the email stream that are one of the author's emails, and the
\* commits of all authors together do not exceed the number of lines.
C4_CombinedCounting ==
    pc = "counted" =>
        /\ \A k \in DOMAIN authors :
              authors[k].commits =
                  Cardinality({c \in DOMAIN EmailLines(history) :
                                 EmailLines(history)[c] \in EmailsOf(authors[k])})
        /\ SumCommits(authors) <= Len(EmailLines(history))

\* C4 as amended: a line of the stream counts for the last author of the list
\* that has its email, and for that author alone.
C4_CountedForLastOwner ==
    pc = "counted" =>
        /\ \A k \in DOMAIN authors :
              authors[k].commits =
                  Cardinality({c \in DOMAIN EmailLines(history) :
                      /\ EmailLines(history)[c] \in EmailsOf(authors[k])
                      /\ \A j \in DOMAIN authors :
                            j > k => EmailLines(history)[c] \notin EmailsOf(authors[j])})
        /\ SumCommits(authors) <= Len(EmailLines(history))

C4_Witness ==
    /\ pc = "counted"
    /\ \E k \in DOMAIN authors :
          /\ authors[k].commits = 2
          /\ Len(authors[k].emails) = 2
          /\ authors[k].emails[1] # authors[k].emails[2]
          /\ \A e \in EmailsOf(authors[k]) : e \in Range(EmailLines(history))
    /\ \E k \in DOMAIN authors : authors[k].commits = 0

\* The authors of s that pass both tests of the filter, in the order of s.
RECURSIVE Kept(_, _, _)
Kept(s, pattern, min) ==
    IF s = <<>> THEN <<>>
    ELSE IF Head(s).commits >= min /\ ~Contains(Head(s).name, pattern)
         THEN <<Head(s)>> \o Kept(Tail(s), pattern, min)
         ELSE Kept(Tail(s), pattern, min)

\* C5: when the filter loop has ended, the list holds exactly the authors of
\* the list before it that have commits >= min and a name without the
\* pattern, in their order; and every iteration of the loop brings i closer
\* to the length of the list, so the loop ends.
C5_FilterCorrect ==
    /\ [](pc = "sort" => authors = Kept(prefilter, excludePattern, minContributions))
    /\ [][(pc = "filter" /\ pc' = "filter") =>
            /\ i' >= 0
            /\ Len(authors') - i' = Len(authors) - i - 1]_vars

C5_Witness ==
    /\ pc = "sort"
    /\ Len(prefilter) >= 3
    /\ Len(authors) >= 1
    /\ \E k \in 1..(Len(prefilter) - 1) :
          /\ k + 1 = Len(prefilter)
          /\ prefilter[k].commits < minContributions
          /\ Contains(prefilter[k + 1].name, excludePattern)
          /\ prefilter[k + 1].commits >= minContributions

\* C6: during and after a second run of the reconciliation step on the list
\* that the first run produced, the list is the one the first run produced.
C6_Idempotent ==
    run = 2 => authors = firstRun

C6_Witness ==
    /\ run = 2
    /\ pc = "count"
    /\ Len(authors) > Len(roster)
    /\ \E k \in DOMAIN roster : Len(authors[k].emails) > Len(roster[k].emails)

\* C7: with -geekrank, in the list that is rendered each author's geekrank
\* is at least the geekrank of the author after it.
C7_GeekrankSorted ==
    (pc = "render" /\ geekrank) =>
        \A k \in 1..(Len(authors) - 1) : authors[k].geekrank >= authors[k + 1].geekrank

C7_Witness ==
    /\ pc = "render"
    /\ geekrank
    /\ minContributions = 0
    /\ \E k \in DOMAIN authors : authors[k].commits = 0
    /\ \E k \in 1..(Len(authors) - 1) :
          /\ authors[k].geekrank > authors[k + 1].geekrank
          /\ byNameLess(authors[k + 1], authors[k])

DiscoveryOrder ==
    LET first == {c \in Included :
                    \A d \in Included : history[d].email = history[c].email => c <= d}
        RECURSIVE Ordered(_)
        Ordered(S) == IF S = {} THEN <<>>
                      ELSE <<history[Min(S)].email>> \o Ordered(S \ {Min(S)})
    IN  Ordered(first)

\* The loop of lines 95-113 visiting the emails in the order of the sequence.
RECURSIVE ReconcileInOrder(_, _, _, _)
ReconcileInOrder(auths, lst, nms, order) ==
    IF order = <<>> THEN auths
    ELSE LET email == Head(order)
             name == all[email]
         IN  IF email \in lst THEN ReconcileInOrder(auths, lst, nms, Tail(order))
             ELSE IF name \in DOMAIN nms /\ name # <<>>
             THEN ReconcileInOrder(AppendEmail(auths, nms[name], email),
                                   lst \cup {email}, nms, Tail(order))
             ELSE ReconcileInOrder(AppendAuthor(auths, name, email),
                                   lst \cup {email},
                                   (name :> (Len(auths) + 1)) @@ nms, Tail(order))

\* C9 as claimed: the reconciliation loop leaves the list that visiting the
\* history's emails in the order of their first commit in the log produces.
C9_DiscoveryOrder ==
    (pc = "count" /\ run = 1) =>
        authors = ReconcileInOrder(roster, AllEmails(roster),
                                   [n \in {roster[k].name : k \in DOMAIN roster} |->
                                       Max({k \in DOMAIN roster : roster[k].name = n})],
                                   DiscoveryOrder)

\* The non-excluded commits of email e, and those with a name.
CommitsOf(e) == {c \in Included : history[c].email = e}
NamedCommitsOf(e) == {c \in CommitsOf(e) : history[c].name # <<>>}

\* C10 as claimed: when allAuthors has returned, the name of each email is
\* the name of the first non-excluded commit of the log with that email.
C10_FirstNameWins ==
    pc = "reconcile" =>
        /\ DOMAIN all = {history[c].email : c \in Included}
        /\ \A e \in DOMAIN all : all[e] = history[Min(CommitsOf(e))].name

\* C10 as amended: the name of each email is the name of the first
\* non-excluded commit with that email whose name is not empty, and empty
\* when there is none.
C10_FirstNonEmptyNameWins ==
    pc = "reconcile" =>
        /\ DOMAIN all = {history[c].email : c \in Included}
        /\ \A e \in DOMAIN all :
              all[e] = IF NamedCommitsOf(e) = {} THEN <<>>
                       ELSE history[Min(NamedCommitsOf(e))].name

C10_Witness ==
    /\ pc = "reconcile"
    /\ \E e \in DOMAIN all :
          \E c, d \in NamedCommitsOf(e) :
              /\ c < d
              /\ history[c].name # history[d].name
              /\ all[e] = history[c].name

====
